---- MODULE Spec2Model ----
(***************************************************************************)
(* MovieHub (src/main.py): a single-table movie catalog served by Flask.   *)
(* The model keeps the movies table, the AUTOINCREMENT counter, the poster *)
(* directory and the wall clock, and one action per route handler.         *)
(*                                                                         *)
(* Text is a sequence of one-character strings.  A missing form field or   *)
(* query parameter (Python None) is the value None.  The columns year,     *)
(* quality and languages are stored and returned verbatim and are read by  *)
(* no condition of the program; the model leaves them out of the rows.     *)
(***************************************************************************)
EXTENDS Integers, Sequences, FiniteSets, TLC

VARIABLES
    ADMIN_PASSWORD,   \* the configured admin secret (environment, main.py:27)
    ITEMS_PER_PAGE,   \* the configured page size (environment, main.py:28)
    movies,           \* the committed rows of table movies
    sqlite_sequence,  \* AUTOINCREMENT: the largest id ever assigned
    posters,          \* the file names present in UPLOAD_FOLDER
    clock,            \* the wall clock, in ticks
    assigned,         \* history: every id an INSERT has ever assigned
    pc,               \* per worker: where its delete_movie call stands
    req,              \* per worker: the request it is serving
    resp              \* the response produced by the latest step

vars == <<ADMIN_PASSWORD, ITEMS_PER_PAGE, movies, sqlite_sequence, posters,
          clock, assigned, pc, req, resp>>

-----------------------------------------------------------------------------
(* Bounds of the model *)

\* the clock stops here; every successful add takes one tick
MaxClock == 3
\* clock ticks within one second of datetime()
TicksPerSecond == 2
\* page sizes 1..MaxLimit
MaxLimit == 2
\* requested pages -1..MaxPage+1 in the pagination specification
MaxPage == 3
\* rows in the table of the pagination specification
MaxRows == 5
\* text length in the filter specification
MaxText == 2

None == <<"<None>">>
Whitespace == {" "}

Min(a, b) == IF a < b THEN a ELSE b
Max(a, b) == IF a > b THEN a ELSE b
Range(s) == {s[i] : i \in 1..Len(s)}

-----------------------------------------------------------------------------
(* Python and SQLite text functions *)

\* str.lower() / SQLite lower() on the characters of the model's alphabet
LowerChar(c) ==
    CASE c = "A" -> "a"
      [] c = "B" -> "b"
      [] c = "G" -> "g"
      [] c = "N" -> "n"
      [] c = "P" -> "p"
      [] OTHER -> c

lower(s) == [i \in 1..Len(s) |-> LowerChar(s[i])]

\* code points, for the binary collation of ORDER BY lower(title)
Ord(c) ==
    CASE c = " " -> 32
      [] c = "%" -> 37
      [] c = "A" -> 65
      [] c = "B" -> 66
      [] c = "_" -> 95
      [] c = "a" -> 97
      [] c = "b" -> 98
      [] OTHER -> 127

RECURSIVE lstrip(_)
lstrip(s) ==
    IF s # <<>> /\ Head(s) \in Whitespace THEN lstrip(Tail(s)) ELSE s

RECURSIVE rstrip(_)
rstrip(s) ==
    IF s # <<>> /\ s[Len(s)] \in Whitespace
    THEN rstrip(SubSeq(s, 1, Len(s) - 1))
    ELSE s

\* str.strip()
strip(s) == rstrip(lstrip(s))

\* (x or "")
OrEmpty(x) == IF x = None \/ x = <<>> THEN <<>> ELSE x

\* (request.form.get(name) or "").strip()
FormText(x) == strip(OrEmpty(x))

-----------------------------------------------------------------------------
(* Utils *)

ALLOWED_EXTENSIONS ==
    {<<"p", "n", "g">>, <<"j", "p", "g">>, <<"j", "p", "e", "g">>,
     <<"w", "e", "b", "p">>}

\* filename.rsplit(".", 1)[1]
Extension(filename) ==
    LET dots == {i \in 1..Len(filename) : filename[i] = "."}
        last == CHOOSE i \in dots : \A j \in dots : j <= i
    IN  SubSeq(filename, last + 1, Len(filename))

allowed_file(filename) ==
    /\ "." \in Range(filename)
    /\ lower(Extension(filename)) \in ALLOWED_EXTENSIONS

\* the gate without its truthiness test: password == ADMIN_PASSWORD
require_admin_equal_only(password) == password = ADMIN_PASSWORD

\* password and password == ADMIN_PASSWORD
require_admin(password) ==
    /\ password # None
    /\ password # <<>>
    /\ password = ADMIN_PASSWORD

\* werkzeug secure_filename: path separators become blanks, the blank-separated
\* parts are joined by "_", and leading and trailing "." and "_" are dropped
RECURSIVE JoinParts(_, _)
JoinParts(s, started) ==
    IF s = <<>> THEN <<>>
    ELSE IF Head(s) = " "
         THEN IF started /\ lstrip(s) # <<>>
              THEN <<"_">> \o JoinParts(lstrip(s), TRUE)
              ELSE JoinParts(lstrip(s), started)
         ELSE <<Head(s)>> \o JoinParts(Tail(s), TRUE)

RECURSIVE StripDots(_)
StripDots(s) ==
    IF s # <<>> /\ Head(s) \in {".", "_"} THEN StripDots(Tail(s))
    ELSE IF s # <<>> /\ s[Len(s)] \in {".", "_"}
         THEN StripDots(SubSeq(s, 1, Len(s) - 1))
         ELSE s

secure_filename(filename) ==
    StripDots(JoinParts([i \in 1..Len(filename) |->
                            IF filename[i] = "/" THEN " " ELSE filename[i]],
                        FALSE))

\* f"{datetime.utcnow().strftime('%Y%m%d%H%M%S%f')}_{filename}"
StoredName(now, filename) == <<ToString(now), "_">> \o secure_filename(filename)

-----------------------------------------------------------------------------
(* Movie Store: the SQL statements of the handlers *)

Ids(tbl) == {r.id : r \in tbl}

MaxId(tbl) == IF tbl = {} THEN 0 ELSE CHOOSE i \in Ids(tbl) : \A j \in Ids(tbl) : j <= i

\* a plain INTEGER PRIMARY KEY: one more than the largest id in the table
NextRowid_max_rowid(tbl, seqv) == MaxId(tbl) + 1

\* id INTEGER PRIMARY KEY AUTOINCREMENT: one more than the largest id ever used
NextRowid(tbl, seqv) == Max(seqv, MaxId(tbl)) + 1

\* SQLite datetime(created_at): the timestamp cut to whole seconds
SqlDatetime(t) == t \div TicksPerSecond

\* X LIKE pattern: % is any run of characters, _ is any one character,
\* letters compare without case, there is no escape character
RECURSIVE Like(_, _)
Like(pat, str) ==
    IF pat = <<>> THEN str = <<>>
    ELSE IF Head(pat) = "%"
         THEN Like(Tail(pat), str) \/ (str # <<>> /\ Like(pat, Tail(str)))
         ELSE /\ str # <<>>
              /\ \/ Head(pat) = "_"
                 \/ LowerChar(Head(pat)) = LowerChar(Head(str))
              /\ Like(Tail(pat), Tail(str))

\* WHERE title LIKE ? OR description LIKE ?, with both parameters f"%{q}%"
Matches(q, title, description) ==
    LET like == <<"%">> \o q \o <<"%">>
    IN  Like(like, title) \/ Like(like, description)

Where(tbl, q) ==
    IF q # <<>> THEN {r \in tbl : Matches(q, r.title, r.description)} ELSE tbl

\* binary comparison of two texts, a <= b
RECURSIVE TextLE(_, _)
TextLE(a, b) ==
    IF a = <<>> THEN TRUE
    ELSE IF b = <<>> THEN FALSE
    ELSE IF Ord(Head(a)) # Ord(Head(b)) THEN Ord(Head(a)) < Ord(Head(b))
    ELSE TextLE(Tail(a), Tail(b))

\* may row a come directly before row b under the ORDER BY clause
InOrder(a, b, sort) ==
    IF sort = "new"
    THEN SqlDatetime(a.created_at) >= SqlDatetime(b.created_at)
    ELSE TextLE(lower(a.title), lower(b.title))

\* every row sequence the ORDER BY clause allows: the first row is any row
\* no other row must precede; rows with equal keys come in an order SQL
\* leaves open
RECURSIVE OrderBy(_, _)
OrderBy(rows, sort) ==
    IF rows = {} THEN {<<>>}
    ELSE UNION {{<<r>> \o t : t \in OrderBy(rows \ {r}, sort)} :
                   r \in {x \in rows : \A y \in rows : InOrder(x, y, sort)}}

\* LIMIT ? OFFSET ?: a negative OFFSET counts as 0, a negative LIMIT as no limit
LimitOffset(s, limit, offset) ==
    LET off == IF offset < 0 THEN 0 ELSE offset
        lim == IF limit < 0 THEN Len(s) ELSE limit
    IN  SubSeq(s, off + 1, Min(off + lim, Len(s)))

\* the page count rounded down: max(1, total // ITEMS_PER_PAGE)
PageCount_floor(total, limit) == Max(1, total \div limit)

\* max(1, (total + ITEMS_PER_PAGE - 1) // ITEMS_PER_PAGE)
PageCount(total, limit) == Max(1, (total + limit - 1) \div limit)

\* (page - 1) * ITEMS_PER_PAGE
Offset(page, limit) == (page - 1) * limit

\* SELECT poster FROM movies WHERE id=?  (the set of fetched posters, empty
\* when fetchone() returns None)
SelectPoster(tbl, movie_id) == {r.poster : r \in {x \in tbl : x.id = movie_id}}

\* DELETE FROM movies WHERE id<=?
DeleteRow_up_to(tbl, movie_id) == {r \in tbl : r.id > movie_id}

\* DELETE FROM movies WHERE id=?
DeleteRow(tbl, movie_id) == {r \in tbl : r.id # movie_id}

\* os.remove(path) with its except clause: the exception that leaves the
\* try statement ("" when none does) and the directory afterwards.  io is
\* what the file system does with an existing file: "ok" or "OSError".
os_remove(dir, name, io) ==
    IF name \notin dir THEN [raised |-> "FileNotFoundError", dir |-> dir]
    ELSE IF io = "ok" THEN [raised |-> "", dir |-> dir \ {name}]
    ELSE [raised |-> "OSError", dir |-> dir]

\* os.remove(...) without the except clause
TryRemove_uncaught(dir, name, io) == os_remove(dir, name, io)

\* try: os.remove(...) except FileNotFoundError: pass
TryRemove(dir, name, io) ==
    LET r == os_remove(dir, name, io)
    IN  IF r.raised = "FileNotFoundError" THEN [r EXCEPT !.raised = ""] ELSE r

-----------------------------------------------------------------------------
(* Requests and responses *)

Workers == {"w1", "w2"}

DigitValue(c) ==
    CASE c = "0" -> 0 [] c = "1" -> 1 [] c = "2" -> 2 [] c = "3" -> 3
      [] c = "4" -> 4 [] c = "5" -> 5 [] c = "6" -> 6 [] c = "7" -> 7
      [] c = "8" -> 8 [] c = "9" -> 9 [] OTHER -> -1

RECURSIVE Digits(_, _)
Digits(s, acc) ==
    IF s = <<>> THEN acc ELSE Digits(Tail(s), 10 * acc + DigitValue(Head(s)))

\* does int(s) raise ValueError
NotAnInt(s) ==
    LET t == strip(s)
        d == IF t # <<>> /\ Head(t) \in {"-", "+"} THEN Tail(t) ELSE t
    IN  d = <<>> \/ \E i \in 1..Len(d) : DigitValue(d[i]) < 0

\* int(s)
int(s) ==
    LET t == strip(s)
    IN  IF Head(t) = "-" THEN 0 - Digits(Tail(t), 0)
        ELSE IF Head(t) = "+" THEN Digits(Tail(t), 0)
        ELSE Digits(t, 0)

\* str(n) for -9..9
str(n) == IF n < 0 THEN <<"-", ToString(0 - n)>> ELSE <<ToString(n)>>

NoResp ==
    [op |-> "", key |-> None, status |-> 0, id |-> 0, worker |-> "",
     title |-> None, tg_url |-> None,
     q |-> <<>>, sort |-> <<>>, page |-> 0, page_count |-> 0, total |-> 0,
     ordered |-> <<>>, movies |-> <<>>, found |-> FALSE, deleted |-> 0]

NoReq == [key |-> None, movie_id |-> 0, poster |-> None]

\* abort(status): the response is the status alone, nothing is written
Abort(r) ==
    /\ resp' = r
    /\ UNCHANGED <<ADMIN_PASSWORD, ITEMS_PER_PAGE, movies, sqlite_sequence,
                   posters, clock, assigned, pc, req>>

\* the check with the link forgotten: if not title
MissingRequired_title_only(title, tg_url) == title = <<>>

\* if not title or not tg_url
MissingRequired(title, tg_url) == title = <<>> \/ tg_url = <<>>

-----------------------------------------------------------------------------
(* Routes *)

\* GET /
home(f_q, f_sort, f_page) ==
    LET q == FormText(f_q)
        sort == IF f_sort = None THEN <<"n", "e", "w">> ELSE f_sort
        r == [NoResp EXCEPT !.op = "home", !.q = q, !.sort = sort]
    IN  IF f_page # None /\ NotAnInt(f_page)
        THEN Abort([r EXCEPT !.status = 500])
        ELSE LET page == IF f_page = None THEN 1 ELSE int(f_page)
                 matched == Where(movies, q)
                 total == Cardinality(matched)
                 page_count == PageCount(total, ITEMS_PER_PAGE)
                 offset == Offset(page, ITEMS_PER_PAGE)
                 order == IF sort = <<"n", "e", "w">> THEN "new" ELSE "az"
             IN  \E ordered \in OrderBy(matched, order) :
                    Abort([r EXCEPT !.status = 200,
                                    !.page = page,
                                    !.page_count = page_count,
                                    !.total = total,
                                    !.ordered = ordered,
                                    !.movies = LimitOffset(ordered, ITEMS_PER_PAGE,
                                                           offset)])

\* POST /add
add_movie(key, f_title, f_description, f_tg_url, f_file) ==
    LET title == FormText(f_title)
        description == FormText(f_description)
        tg_url == FormText(f_tg_url)
        hasFile == f_file # None /\ f_file # <<>>
        r == [NoResp EXCEPT !.op = "add", !.key = key, !.title = f_title,
                            !.tg_url = f_tg_url]
    IN  IF ~require_admin(key) THEN Abort([r EXCEPT !.status = 401])
        ELSE IF MissingRequired(title, tg_url) THEN Abort([r EXCEPT !.status = 400])
        ELSE IF hasFile /\ ~allowed_file(f_file) THEN Abort([r EXCEPT !.status = 400])
        ELSE LET poster == IF hasFile THEN StoredName(clock, f_file) ELSE None
                 id == NextRowid(movies, sqlite_sequence)
                 row == [id |-> id, title |-> title, description |-> description,
                         tg_url |-> tg_url, poster |-> poster, created_at |-> clock]
             IN  /\ clock < MaxClock
                 /\ \A w \in Workers : pc[w] # "commit"  \* INSERT waits for the write lock
                 /\ posters' = IF hasFile THEN posters \cup {poster} ELSE posters
                 /\ movies' = movies \cup {row}
                 /\ sqlite_sequence' = id
                 /\ assigned' = assigned \cup {id}
                 /\ clock' = clock + 1
                 /\ resp' = [r EXCEPT !.status = 302, !.id = id]
                 /\ UNCHANGED <<ADMIN_PASSWORD, ITEMS_PER_PAGE, pc, req>>

\* GET /delete/<int:movie_id>, handled without interruption
delete_movie(key, movie_id, io) ==
    LET r == [NoResp EXCEPT !.op = "delete", !.key = key, !.id = movie_id]
        row == SelectPoster(movies, movie_id)
    IN  /\ \A w \in Workers : pc[w] = "idle"
        /\ IF ~require_admin(key) THEN Abort([r EXCEPT !.status = 401])
           ELSE IF row = {} THEN Abort([r EXCEPT !.status = 302])
           ELSE LET poster == CHOOSE p \in row : TRUE
                    rm == IF poster # None /\ poster # <<>>
                          THEN TryRemove(posters, poster, io)
                          ELSE [raised |-> "", dir |-> posters]
                IN  /\ posters' = rm.dir
                    /\ movies' = IF rm.raised = "" THEN DeleteRow(movies, movie_id)
                                 ELSE movies
                    /\ resp' = [r EXCEPT !.status = IF rm.raised = "" THEN 302 ELSE 500,
                                         !.found = TRUE,
                                         !.deleted = Cardinality(movies) -
                                                     Cardinality(movies')]
                    /\ UNCHANGED <<ADMIN_PASSWORD, ITEMS_PER_PAGE, sqlite_sequence,
                                   clock, assigned, pc, req>>

\* GET /delete/<int:movie_id> served by worker w, one statement at a time.
\* Step 1: the admin check and SELECT poster ... fetchone()
delete_select(w, key, movie_id) ==
    LET r == [NoResp EXCEPT !.op = "delete", !.key = key, !.id = movie_id,
                            !.worker = w]
        row == SelectPoster(movies, movie_id)
    IN  /\ pc[w] = "idle"
        /\ IF ~require_admin(key) THEN Abort([r EXCEPT !.status = 401])
           ELSE IF row = {} THEN Abort([r EXCEPT !.status = 302])
           ELSE LET poster == CHOOSE p \in row : TRUE
                IN  /\ pc' = [pc EXCEPT ![w] = IF poster # None /\ poster # <<>>
                                               THEN "remove" ELSE "delete"]
                    /\ req' = [req EXCEPT ![w] = [key |-> key, movie_id |-> movie_id,
                                                  poster |-> poster]]
                    /\ resp' = [r EXCEPT !.op = "step"]
                    /\ UNCHANGED <<ADMIN_PASSWORD, ITEMS_PER_PAGE, movies,
                                   sqlite_sequence, posters, clock, assigned>>

\* Step 2: try: os.remove(...) except FileNotFoundError: pass
delete_remove(w, io) ==
    LET rm == TryRemove(posters, req[w].poster, io)
        r == [NoResp EXCEPT !.key = req[w].key, !.id = req[w].movie_id, !.worker = w]
    IN  /\ pc[w] = "remove"
        /\ posters' = rm.dir
        /\ IF rm.raised = ""
           THEN /\ pc' = [pc EXCEPT ![w] = "delete"]
                /\ req' = req
                /\ resp' = [r EXCEPT !.op = "step"]
           ELSE /\ pc' = [pc EXCEPT ![w] = "idle"]
                /\ req' = [req EXCEPT ![w] = NoReq]
                /\ resp' = [r EXCEPT !.op = "delete", !.status = 500, !.found = TRUE]
        /\ UNCHANGED <<ADMIN_PASSWORD, ITEMS_PER_PAGE, movies, sqlite_sequence,
                       clock, assigned>>

\* Step 3: conn.execute("DELETE ..."): the statement opens a transaction and
\* takes the database's write lock, waiting while another connection holds it
delete_execute(w) ==
    /\ pc[w] = "delete"
    /\ \A v \in Workers : pc[v] # "commit"
    /\ pc' = [pc EXCEPT ![w] = "commit"]
    /\ resp' = [NoResp EXCEPT !.op = "step", !.key = req[w].key,
                              !.id = req[w].movie_id, !.worker = w]
    /\ UNCHANGED <<ADMIN_PASSWORD, ITEMS_PER_PAGE, movies, sqlite_sequence,
                   posters, clock, assigned, req>>

\* Step 4: conn.commit(), conn.close() and the redirect
delete_commit(w) ==
    /\ pc[w] = "commit"
    /\ movies' = DeleteRow(movies, req[w].movie_id)
    /\ pc' = [pc EXCEPT ![w] = "idle"]
    /\ req' = [req EXCEPT ![w] = NoReq]
    /\ resp' = [NoResp EXCEPT !.op = "delete", !.status = 302, !.key = req[w].key,
                              !.id = req[w].movie_id, !.worker = w, !.found = TRUE,
                              !.deleted = Cardinality(movies) - Cardinality(movies')]
    /\ UNCHANGED <<ADMIN_PASSWORD, ITEMS_PER_PAGE, sqlite_sequence, posters,
                   clock, assigned>>

\* GET /api/movies
api_movies ==
    \E ordered \in OrderBy(movies, "new") :
        Abort([NoResp EXCEPT !.op = "api", !.status = 200, !.ordered = ordered,
                             !.movies = ordered])

\* time passes between two requests
Tick ==
    /\ clock < MaxClock
    /\ clock' = clock + 1
    /\ resp' = [NoResp EXCEPT !.op = "tick"]
    /\ UNCHANGED <<ADMIN_PASSWORD, ITEMS_PER_PAGE, movies, sqlite_sequence,
                   posters, assigned, pc, req>>

-----------------------------------------------------------------------------
(* What the clients send *)

\* the submitted key is non-empty and equals the configured secret
Authorized(key) == key # None /\ key # <<>> /\ key = ADMIN_PASSWORD

\* the field is missing or has nothing but whitespace
Blank(x) == x = None \/ \A i \in 1..Len(x) : x[i] \in Whitespace

Secrets == {<<"s">>, <<>>}
Keys == {None, <<>>, <<"s">>, <<"w">>}

\* the submitted forms: title, description, tg_url and the uploaded file's name
Form(t, d, u, f) == [title |-> t, description |-> d, tg_url |-> u, file |-> f]

Forms ==
    {Form(<<"a">>, None, <<"u">>, None),
     Form(<<" ", "B">>, <<"b", " ">>, <<"u", " ">>, <<"/", "p", ".", "P", "N", "G">>),
     Form(<<" ">>, None, <<"u">>, <<"p", ".", "p", "n", "g">>),
     Form(<<"a">>, None, None, <<>>),
     Form(<<"a">>, None, <<"u">>, <<"x", ".", "e">>)}

MovieIds == 0..MaxClock
Queries == {None, <<"b", " ">>}
Sorts == {None, <<"a", "z">>}
Pages == {None, <<"0">>, <<"2">>}

Init ==
    /\ ADMIN_PASSWORD \in Secrets
    /\ ITEMS_PER_PAGE \in 1..MaxLimit
    /\ movies = {}
    /\ sqlite_sequence = 0
    /\ posters = {}
    /\ clock = 0
    /\ assigned = {}
    /\ pc = [w \in Workers |-> "idle"]
    /\ req = [w \in Workers |-> NoReq]
    /\ resp = NoResp

Next ==
    \/ \E q \in Queries, s \in Sorts, p \in Pages : home(q, s, p)
    \/ \E k \in Keys, f \in Forms :
          add_movie(k, f.title, f.description, f.tg_url, f.file)
    \/ \E k \in Keys, i \in MovieIds : delete_movie(k, i, "ok")
    \/ api_movies
    \/ Tick

Spec == Init /\ [][Next]_vars

\* the file system may also refuse to remove an existing file
NextIOFault ==
    \/ \E k \in Keys, f \in Forms :
          add_movie(k, f.title, f.description, f.tg_url, f.file)
    \/ \E k \in Keys, i \in MovieIds, io \in {"ok", "OSError"} : delete_movie(k, i, io)
    \/ api_movies
    \/ Tick

SpecIOFault == Init /\ [][NextIOFault]_vars

\* two workers serve delete requests at the same time, between the
\* administrator's valid submissions
InitConc == Init /\ ADMIN_PASSWORD = <<"s">> /\ ITEMS_PER_PAGE = 1

ValidForms == {f \in Forms : ~Blank(f.title) /\ ~Blank(f.tg_url)}

NextConc ==
    \/ \E f \in ValidForms :
          add_movie(<<"s">>, f.title, f.description, f.tg_url, f.file)
    \/ \E w \in Workers, k \in {<<"s">>, <<"w">>}, i \in MovieIds :
          delete_select(w, k, i)
    \/ \E w \in Workers : delete_remove(w, "ok")
    \/ \E w \in Workers : delete_execute(w)
    \/ \E w \in Workers : delete_commit(w)
    \/ Tick

SpecConc == InitConc /\ [][NextConc]_vars

-----------------------------------------------------------------------------
(* The search filter on its own: one stored row, every short search string *)

Chars == {"a", "A", "b", "%", "_"}
Texts == UNION {[1..n -> Chars] : n \in 0..MaxText}

StoredRow(i, title, description, created_at) ==
    [id |-> i, title |-> title, description |-> description, tg_url |-> <<"u">>,
     poster |-> None, created_at |-> created_at]

InitLike ==
    /\ ADMIN_PASSWORD = <<"s">>
    /\ ITEMS_PER_PAGE = 1
    /\ \E t \in Texts \ {<<>>}, d \in Texts : movies = {StoredRow(1, t, d, 0)}
    /\ sqlite_sequence = 1
    /\ posters = {}
    /\ clock = 1
    /\ assigned = {1}
    /\ pc = [w \in Workers |-> "idle"]
    /\ req = [w \in Workers |-> NoReq]
    /\ resp = NoResp

NextLike == \E q \in Texts \cup {None, <<" ", "a", " ">>} : home(q, None, None)

SpecLike == InitLike /\ [][NextLike]_vars

(* Pagination on its own: a table of n rows added one tick apart *)

PageRow(i) == StoredRow(i, IF i % 2 = 1 THEN <<"a">> ELSE <<"B">>, <<>>, i - 1)

PageArgs == {None, <<"x">>} \cup {str(n) : n \in -1..(MaxPage + 1)}

InitPage ==
    /\ ADMIN_PASSWORD = <<"s">>
    /\ ITEMS_PER_PAGE \in 1..MaxLimit
    /\ \E n \in 0..MaxRows :
          /\ movies = {PageRow(i) : i \in 1..n}
          /\ sqlite_sequence = n
          /\ clock = n
          /\ assigned = 1..n
    /\ posters = {}
    /\ pc = [w \in Workers |-> "idle"]
    /\ req = [w \in Workers |-> NoReq]
    /\ resp = NoResp

NextPage == \E s \in Sorts, p \in PageArgs : home(None, s, p)

SpecPage == InitPage /\ [][NextPage]_vars

-----------------------------------------------------------------------------
(* Properties *)

\* C1: the table and the poster directory change only in a step of an Add or
\* Delete request whose key is non-empty and equal to the admin secret; an
\* Add or Delete request with any other key ends with 401 and changes neither.
AdminGate ==
    [][/\ (movies' # movies \/ posters' # posters)
            => (resp'.op \in {"add", "delete"} /\ Authorized(resp'.key))
       /\ (resp'.op \in {"add", "delete"} /\ ~Authorized(resp'.key))
            => (resp'.status = 401 /\ movies' = movies /\ posters' = posters)]_vars

\* a delete of an existing row was refused with 401
AdminGateWitness ==
    /\ resp.op = "delete"
    /\ resp.status = 401
    /\ resp.id \in Ids(movies)
    /\ posters # {}

\* C2: every row has a non-empty title and a non-empty tg_url, and an
\* authorized Add whose title or tg_url is blank after trimming ends with 400
\* and creates neither a row nor a poster file.
RequiredFields ==
    [][/\ \A r \in movies' : r.title # <<>> /\ r.tg_url # <<>>
       /\ (resp'.op = "add" /\ Authorized(resp'.key)
              /\ (Blank(resp'.title) \/ Blank(resp'.tg_url)))
            => (resp'.status = 400 /\ movies' = movies /\ posters' = posters)]_vars

\* an authorized Add with a title of one blank was refused with 400
RequiredFieldsWitness ==
    /\ resp.op = "add"
    /\ resp.status = 400
    /\ Authorized(resp.key)
    /\ resp.title = <<" ">>
    /\ movies # {}

\* C3: the id of a successful Add was never assigned before, also not to a
\* row deleted since, and the listing served directly after the Add (GET
\* /api/movies, or unfiltered GET / page 1 when all rows fit one page)
\* contains the new row.
FreshIds ==
    [][/\ (resp'.op = "add" /\ resp'.status = 302)
            => /\ resp'.id \notin assigned
               /\ resp'.id \notin Ids(movies)
               /\ Cardinality({r \in movies' : r.id = resp'.id}) = 1
       /\ (/\ resp.op = "add" /\ resp.status = 302
           /\ resp'.status = 200
           /\ \/ resp'.op = "api"
              \/ /\ resp'.op = "home"
                 /\ resp'.q = <<>>
                 /\ resp'.page = 1
                 /\ resp'.total <= ITEMS_PER_PAGE)
            => \E i \in 1..Len(resp'.movies) : resp'.movies[i].id = resp.id]_vars

\* an Add succeeded after the row with the largest id had been deleted
FreshIdsWitness ==
    /\ resp.op = "add"
    /\ resp.status = 302
    /\ resp.id > 1
    /\ (resp.id - 1) \notin Ids(movies)

\* C4: an authorized delete handled on its own ends with the redirect, removes
\* exactly the row with that id and that row's poster file, and a second
\* delete of the same id directly after it changes nothing.
DeleteIdempotent ==
    [][(resp'.op = "delete" /\ Authorized(resp'.key))
          => /\ resp'.status = 302
             /\ movies' = {r \in movies : r.id # resp'.id}
             /\ posters' = posters \ {r.poster : r \in {x \in movies : x.id = resp'.id}}
             /\ (resp.op = "delete" /\ resp.status = 302 /\ resp.id = resp'.id)
                  => (movies' = movies /\ posters' = posters)]_vars

\* a delete of an id whose row had been deleted before was answered with the
\* redirect
DeleteIdempotentWitness ==
    /\ resp.op = "delete"
    /\ resp.status = 302
    /\ resp.id \in assigned
    /\ resp.deleted = 0
    /\ movies # {}

\* C5: when two workers delete at once, no step of a delete fails, each step
\* removes nothing but the request's row and that row's poster file, and a
\* delete that finishes leaves its row and the poster it read absent.
ConcurrentDeletes ==
    [][(resp'.worker \in Workers)
          => /\ resp'.status # 500
             /\ movies' \subseteq movies
             /\ \A r \in movies \ movies' : r.id = resp'.id
             /\ posters' \subseteq posters
             /\ \A f \in posters \ posters' :
                   \E r \in movies : r.id = resp'.id /\ r.poster = f
             /\ (resp'.op = "delete" /\ Authorized(resp'.key))
                  => /\ resp'.status = 302
                     /\ resp'.id \notin Ids(movies')
                     /\ req[resp'.worker].poster \notin posters']_vars

\* a delete that had read the row found it already removed by the other
\* worker, and still ended with the redirect
ConcurrentDeletesWitness ==
    /\ resp.op = "delete"
    /\ resp.status = 302
    /\ resp.found
    /\ resp.deleted = 0

\* C6: an authorized delete removes the row and ends with the redirect also
\* when the removal of the poster file fails.
DeleteSurvivesRemoveFailure ==
    (resp.op = "delete" /\ Authorized(resp.key))
        => (resp.status = 302 /\ resp.id \notin Ids(movies))

\* sub occurs in s as a contiguous run of characters
Contains(s, sub) ==
    \E i \in 0..(Len(s) - Len(sub)) : SubSeq(s, i + 1, i + Len(sub)) = sub

\* C7: with a non-empty search string the listing has a row exactly when the
\* string occurs, ignoring case, as a literal substring of the row's title or
\* description.
LiteralSubstringFilter ==
    (resp.op = "home" /\ resp.status = 200 /\ resp.q # <<>>)
        => \A r \in movies :
              (r \in Range(resp.ordered))
                 <=> \/ Contains(lower(r.title), lower(resp.q))
                     \/ Contains(lower(r.description), lower(resp.q))

\* C8: a newest-first listing has every later inserted row before every
\* earlier inserted one.
NewestStrict ==
    (resp.status = 200
       /\ (resp.op = "api" \/ (resp.op = "home" /\ resp.sort = <<"n", "e", "w">>)))
        => \A i, j \in 1..Len(resp.ordered) :
              i < j => resp.ordered[i].id > resp.ordered[j].id

\* the least n with n * limit >= total
Ceil(total, limit) == CHOOSE n \in 0..total : n * limit >= total /\ (n - 1) * limit < total

\* C9: for a page p >= 1 the listing reports max(1, ceil(T / L)) pages and
\* returns the rows at positions (p-1)*L .. min(p*L, T)-1 of the ordered
\* matching rows, none when the page is past the last one.
Pagination ==
    (resp.op = "home" /\ resp.status = 200 /\ resp.page >= 1)
        => LET L == ITEMS_PER_PAGE
               T == Len(resp.ordered)
               first == (resp.page - 1) * L
               last == Min(resp.page * L, T) - 1
           IN  /\ resp.total = T
               /\ resp.page_count = Max(1, Ceil(T, L))
               /\ Len(resp.movies) = Max(0, last - first + 1)
               /\ \A k \in 1..Len(resp.movies) : resp.movies[k] = resp.ordered[first + k]

\* page size 2 and 5 rows: 3 pages, and page 4 is served with no rows
PaginationWitness ==
    /\ resp.op = "home"
    /\ resp.status = 200
    /\ ITEMS_PER_PAGE = 2
    /\ resp.total = 5
    /\ resp.page = 4
    /\ resp.page_count = 3
    /\ resp.movies = <<>>

\* C10: the page number handed to the template and used for the offset is
\* at least 1.
PageClamped ==
    (resp.op = "home" /\ resp.status = 200)
        => (resp.page >= 1 /\ Offset(resp.page, ITEMS_PER_PAGE) >= 0)

====
